---- MODULE Spec2Model ----
(***************************************************************************)
(* Model of p2s.py, the .pt -> .safetensors converter: the two extraction  *)
(* functions (process_embedding_file, process_vae_file), the per-file      *)
(* conversion (process_file), the batch loop (process_pt_files) and the    *)
(* command-line entry point (main).                                        *)
(***************************************************************************)
EXTENDS Integers, Sequences, FiniteSets, TLC

VARIABLES
    model,       \* the object torch.load returned for the extraction under test
    model_type,  \* the model_type argument
    verbose,     \* the verbose argument
    ret,         \* outcome of the last extraction call
    entry,       \* which function the caller invoked: main or process_pt_files
    path,        \* the path argument
    fs,          \* the file system: existing path -> directory or file
    pc,          \* position of the run
    todo,        \* files of the os.listdir loop still to visit
    status,      \* per visited file: how process_file ended
    out,         \* the lines printed so far
    save_calls,  \* the arguments of every save_file call so far
    raised       \* the exception that left the entry point, or NoExc

vars == <<model, model_type, verbose, ret, entry, path, fs, pc, todo, status,
          out, save_calls, raised>>

----------------------------------------------------------------------------
(* Bounds *)
MaxStep == 2     \* step counters range over 1..MaxStep
MaxFiles == 2    \* longest directory listing

----------------------------------------------------------------------------
(* Python values *)
None == [tag |-> "none"]
Absent == [tag |-> "absent"]     \* marks a key that is not in the root dict
PyInt(n) == [tag |-> "int", v |-> n]
Str(s) == [tag |-> "str", s |-> s]
Tensor(d, sh, b) == [tag |-> "tensor", dtype |-> d, shape |-> sh, data |-> b]
Map(f) == [tag |-> "map", items |-> f]

T1 == Tensor("F32", <<3, 4>>, 1)
T2 == Tensor("F16", <<2>>, 2)

IsTensor(v) == v.tag = "tensor"
IsMap(v) == v.tag = "map"

StepValues == {Absent, None} \cup {PyInt(n) : n \in 1..MaxStep}
NameValues == {Absent, None, Str("sd15")}

\* string_to_param: missing, None, or a dict over a subset of {"*", "a"}
StarValues == {T1, T2, None}
StringToParamValues ==
    {Absent, None}
      \cup {Map([k \in D |-> IF k = "*" THEN v ELSE T2]) :
              D \in SUBSET {"*", "a"}, v \in StarValues}

\* state_dict: missing, None, a bare tensor, or a dict of named tensors
StateDictValues ==
    {Absent, None, T1}
      \cup {Map([k \in D |-> IF k = "encoder.weight" THEN T1 ELSE T2]) :
              D \in SUBSET {"encoder.weight", "decoder.bias"}}

\* The root dict; a field holding Absent is a key the dict does not have.
Checkpoints ==
    [string_to_param : StringToParamValues,
     sd_checkpoint_name : NameValues,
     step : StepValues,
     global_step : StepValues,
     state_dict : StateDictValues]

NoModel == [tag |-> "nomodel"]

\* `key in d`
HasKey(d, k) == d[k] # Absent
\* d.get(key, default)
Get(d, k, default) == IF HasKey(d, k) THEN d[k] ELSE default
\* m.get(key) on a nested dict
MapGet(m, k) == IF k \in DOMAIN m.items THEN m.items[k] ELSE None
EmptyMap == Map([k \in {} |-> None])

----------------------------------------------------------------------------
(* Exceptions, printed lines and outcomes *)
NoPath == <<>>
\* An exception: its class, the text str(e) gives, and the path that text
\* contains (NoPath when it contains none).
Exc(t, m, p) == [type |-> t, text |-> m, path |-> p]
NoExc == Exc("none", "", NoPath)

Return(v, lines) == [ok |-> TRUE, value |-> v, exc |-> NoExc, printed |-> lines]
Raise(e, lines) == [ok |-> FALSE, value |-> None, exc |-> e, printed |-> lines]
NotCalled == [ok |-> FALSE, value |-> None, exc |-> Exc("notcalled", "", NoPath),
              printed |-> <<>>]

\* A printed line: what it says and the value it shows.
Line(k, a) == [kind |-> k, shows |-> a]

----------------------------------------------------------------------------
(* process_embedding_file, p2s.py 86-116 *)

\* lines 103-111: the training information printed in verbose mode
EmbeddingInfoLines(m) ==
    << IF HasKey(m, "sd_checkpoint_name") /\ m.sd_checkpoint_name # None
         THEN Line("trained_on", m.sd_checkpoint_name)
         ELSE Line("checkpoint_name_not_found", None),
       IF HasKey(m, "step") /\ m.step # None
         THEN Line("trained_for", m.step)
         ELSE Line("step_not_found", None) >>

\* Variant: the whole string_to_param dict is returned, not the "*" entry.
process_embedding_file_AllParams(m, v) ==
    LET stp == Get(m, "string_to_param", EmptyMap) IN
    IF ~IsMap(stp)
      THEN Raise(Exc("AttributeError", "no attribute 'get'", NoPath), <<>>)
      ELSE Return(stp, <<>>)

process_embedding_file(m, v) ==
    LET stp == Get(m, "string_to_param", EmptyMap) IN
    IF ~IsMap(stp)
      THEN Raise(Exc("AttributeError", "no attribute 'get'", NoPath), <<>>)
      ELSE
        LET model_tensors == MapGet(stp, "*")
            s_model == Map([k \in {"emb_params"} |-> model_tensors])
        IN  IF ~v THEN Return(s_model, <<>>)
            ELSE IF ~IsTensor(model_tensors)
              THEN Raise(Exc("AttributeError", "no attribute 'shape'", NoPath),
                         EmbeddingInfoLines(m))
              ELSE Return(s_model,
                          EmbeddingInfoLines(m)
                            \o << Line("dimensions", model_tensors.shape),
                                  Line("blank", None) >>)

----------------------------------------------------------------------------
(* process_vae_file, p2s.py 119-142 *)

\* Variant: a null step falls through to global_step.
VaeStep_NullFallsThrough(m) ==
    IF HasKey(m, "step") /\ m.step # None THEN m.step
                                           ELSE Get(m, "global_step", None)

\* line 135: model.get('step', model.get('global_step'))
VaeStep(m) == Get(m, "step", Get(m, "global_step", None))

\* lines 136-140
VaeInfoLines(m) ==
    << IF VaeStep(m) # None
         THEN Line("trained_for", VaeStep(m))
         ELSE Line("step_not_found", None),
       Line("blank", None) >>

process_vae_file(m, v) ==
    IF ~HasKey(m, "state_dict")
      THEN Raise(Exc("KeyError", "'state_dict'", NoPath), <<>>)
      ELSE Return(m.state_dict, IF v THEN VaeInfoLines(m) ELSE <<>>)

----------------------------------------------------------------------------
(* Paths and the file system *)

PtExt == <<".", "p", "t">>
SafetensorsExt == <<".", "s", "a", "f", "e", "t", "e", "n", "s", "o", "r", "s">>

\* s.endswith(suffix)
EndsWith(s, suffix) ==
    /\ Len(s) >= Len(suffix)
    /\ SubSeq(s, Len(s) - Len(suffix) + 1, Len(s)) = suffix

\* os.path.join(dir, name)
Join(dir, name) == dir \o <<"/">> \o name

DirPath == <<"d">>
MissingPath == <<"x">>
A_pt == <<"a">> \o PtExt
B_pt == <<"b">> \o PtExt
N_txt == <<"n", ".", "t", "x", "t">>
A_safetensors == <<"a">> \o SafetensorsExt
Names == {A_pt, B_pt, N_txt, A_safetensors}

\* os.listdir results: names without repetition, in any order
Listings ==
    {l \in UNION {[1..n -> Names] : n \in 0..MaxFiles} :
        \A i, j \in DOMAIN l : i # j => l[i] # l[j]}

OldData == [tag |-> "old"]     \* content of a file that was there before the run
DirEntry(l) == [kind |-> "dir", list |-> l, data |-> None]
FileEntry(d) == [kind |-> "file", list |-> <<>>, data |-> d]

Exists(f, p) == p \in DOMAIN f
IsDir(f, p) == Exists(f, p) /\ f[p].kind = "dir"
IsFile(f, p) == Exists(f, p) /\ f[p].kind = "file"

\* the file system with p (over)written
WriteFile(f, p, d) ==
    [q \in DOMAIN f \cup {p} |-> IF q = p THEN FileEntry(d) ELSE f[q]]

Range(l) == {l[i] : i \in DOMAIN l}

InitialFs(l, pre) ==
    LET top == {A_pt, N_txt} \cup (IF pre THEN {A_safetensors} ELSE {})
        inside == {Join(DirPath, n) : n \in Range(l)}
    IN  [p \in {DirPath} \cup top \cup inside |->
            IF p = DirPath THEN DirEntry(l) ELSE FileEntry(OldData)]

----------------------------------------------------------------------------
(* save_file of safetensors.torch, called at p2s.py 82 *)

\* what save_file accepts: a dict whose values are all tensors
ValidTensors(s_model) ==
    /\ IsMap(s_model)
    /\ \A k \in DOMAIN s_model.items : IsTensor(s_model.items[k])

save_file(s_model, p, f) ==
    IF ValidTensors(s_model)
      THEN [exc |-> NoExc, fs |-> WriteFile(f, p, s_model)]
      ELSE [exc |-> Exc("ValueError", "expected a dict of tensors", NoPath), fs |-> f]

----------------------------------------------------------------------------
(* process_file, p2s.py 55-83 *)

LoadFailure == [tag |-> "loadfailure"]
\* what torch.load(file_path) gives in the batch runs: an exception, or a
\* checkpoint (any string_to_param and state_dict, with or without a step)
LoadedCheckpoints ==
    [string_to_param : StringToParamValues,
     sd_checkpoint_name : {Absent},
     step : {Absent, PyInt(1)},
     global_step : {Absent},
     state_dict : StateDictValues]
Loaded == LoadedCheckpoints \cup {LoadFailure}

\* Variant: file_path[:-2], which keeps the dot of ".pt".
NewFilePath_KeepsDot(file_path) ==
    SubSeq(file_path, 1, Len(file_path) - 2) \o SafetensorsExt

\* line 81: file_path[:-3] + '.safetensors'
NewFilePath(file_path) == SubSeq(file_path, 1, Len(file_path) - 3) \o SafetensorsExt

SaveCall(p, t, w) == [path |-> p, tensors |-> t, wrote |-> w]

Outcome(st, e, lines, f, calls) ==
    [status |-> st, exc |-> e, printed |-> lines, fs |-> f, calls |-> calls]

\* Variant: the output file is created before the checkpoint is loaded.
process_file_OpensOutputFirst(file_path, mt, v, loaded, f) ==
    LET new_file_path == SubSeq(file_path, 1, Len(file_path) - 3) \o SafetensorsExt
        f0 == WriteFile(f, new_file_path, EmptyMap)
    IN
    IF loaded = LoadFailure
      THEN Outcome("load_failed", Exc("UnpicklingError", "invalid load key", NoPath),
                   <<>>, f0, <<>>)
    ELSE IF mt \notin {"embedding", "vae"}
      THEN Outcome("unsupported",
                   Exc("ValueError", "model_type is not supported", NoPath),
                   <<>>, f0, <<>>)
    ELSE
      LET r == IF mt = "embedding" THEN process_embedding_file(loaded, v)
                                   ELSE process_vae_file(loaded, v)
      IN
      IF ~r.ok THEN Outcome("extract_failed", r.exc, r.printed, f0, <<>>)
      ELSE IF ~ValidTensors(r.value)
        THEN Outcome("save_failed",
                     Exc("ValueError", "expected a dict of tensors", NoPath),
                     r.printed, f0, << SaveCall(new_file_path, r.value, FALSE) >>)
        ELSE Outcome("saved", NoExc, r.printed,
                     WriteFile(f0, new_file_path, r.value),
                     << SaveCall(new_file_path, r.value, TRUE) >>)

process_file(file_path, mt, v, loaded, f) ==
    IF loaded = LoadFailure
      THEN Outcome("load_failed", Exc("UnpicklingError", "invalid load key", NoPath),
                   <<>>, f, <<>>)
    ELSE
      LET l1 == IF v THEN << Line("processing", file_path) >> ELSE <<>> IN
      IF mt \notin {"embedding", "vae"}
        THEN Outcome("unsupported",
                     Exc("ValueError", "model_type is not supported", NoPath),
                     l1, f, <<>>)
      ELSE
        LET r == IF mt = "embedding" THEN process_embedding_file(loaded, v)
                                     ELSE process_vae_file(loaded, v)
            l2 == l1 \o r.printed
        IN
        IF ~r.ok THEN Outcome("extract_failed", r.exc, l2, f, <<>>)
        ELSE
          LET new_file_path == NewFilePath(file_path)
              s == save_file(r.value, new_file_path, f)
          IN  IF s.exc # NoExc
                THEN Outcome("save_failed", s.exc, l2, s.fs,
                             << SaveCall(new_file_path, r.value, FALSE) >>)
                ELSE Outcome("saved", NoExc,
                             l2 \o << Line("saved", new_file_path) >>, s.fs,
                             << SaveCall(new_file_path, r.value, TRUE) >>)

----------------------------------------------------------------------------
(* main, p2s.py 145-159, and process_pt_files, p2s.py 28-52 *)

Variants == {"embedding", "vae"}      \* the argparse choices, line 151
ModelTypes == Variants \cup {"lora"}

\* line 159: print(f"An error occurred: {str(e)}")
ErrorLine(e) == Line("error", [text |-> e.text, path |-> e.path])

\* An exception leaving process_pt_files: main catches and prints it
\* (lines 156-159); a direct caller of process_pt_files receives it.
\* lines is what has been printed when the exception is raised.
Leave(lines, e) ==
    IF entry = "main"
      THEN /\ out' = Append(lines, ErrorLine(e))
           /\ raised' = NoExc
           /\ pc' = "done"
      ELSE /\ out' = lines
           /\ raised' = e
           /\ pc' = "escaped"

\* main reaches process_pt_files only with a model_type argparse accepts
ArgsAccepted == entry = "main" => model_type \in Variants

Init ==
    /\ model = NoModel
    /\ ret = NotCalled
    /\ entry \in {"main", "process_pt_files"}
    /\ model_type \in ModelTypes
    /\ verbose \in BOOLEAN
    /\ path \in {DirPath, A_pt, N_txt, MissingPath}
    /\ \E l \in Listings, pre \in BOOLEAN :
          /\ path # DirPath => l = <<>>
          /\ path # A_pt => pre = FALSE
          /\ fs = InitialFs(l, pre)
    /\ pc = "start"
    /\ todo = <<>>
    /\ status = [p \in {} |-> ""]
    /\ out = <<>>
    /\ save_calls = <<>>
    /\ raised = NoExc

\* line 151: argparse refuses a model_type outside its choices
ParseArgsError ==
    /\ pc = "start"
    /\ ~ArgsAccepted
    /\ out' = Append(out, Line("usage_error", None))
    /\ pc' = "exited"
    /\ UNCHANGED <<model, model_type, verbose, ret, entry, path, fs, todo,
                   status, save_calls, raised>>

\* lines 40-41
PathNotFound ==
    /\ pc = "start"
    /\ ArgsAccepted
    /\ ~Exists(fs, path)
    /\ Leave(out, Exc("FileNotFoundError", "The specified path does not exist", path))
    /\ UNCHANGED <<model, model_type, verbose, ret, entry, path, fs, todo,
                   status, save_calls>>

\* lines 43-45: os.listdir(path)
EnterDirectory ==
    /\ pc = "start"
    /\ ArgsAccepted
    /\ IsDir(fs, path)
    /\ todo' = fs[path].list
    /\ pc' = "loop"
    /\ UNCHANGED <<model, model_type, verbose, ret, entry, path, fs, status,
                   out, save_calls, raised>>

\* One call of process_file on file_path, whatever torch.load gives for it;
\* pc goes to next when the call returns.
RunProcessFile(file_path, next) ==
    \E loaded \in Loaded :
      LET o == process_file(file_path, model_type, verbose, loaded, fs) IN
      /\ fs' = o.fs
      /\ save_calls' = save_calls \o o.calls
      /\ status' = [f \in DOMAIN status \cup {file_path} |->
                       IF f = file_path THEN o.status ELSE status[f]]
      /\ IF o.exc = NoExc
           THEN /\ out' = out \o o.printed
                /\ pc' = next
                /\ raised' = raised
           ELSE Leave(out \o o.printed, o.exc)

\* lines 48-50: the path is one .pt file
SingleFile ==
    /\ pc = "start"
    /\ ArgsAccepted
    /\ ~IsDir(fs, path)
    /\ IsFile(fs, path) /\ EndsWith(path, PtExt)
    /\ RunProcessFile(path, "done")
    /\ UNCHANGED <<model, model_type, verbose, ret, entry, path, todo>>

\* lines 51-52
InvalidPath ==
    /\ pc = "start"
    /\ ArgsAccepted
    /\ Exists(fs, path)
    /\ ~IsDir(fs, path)
    /\ ~(IsFile(fs, path) /\ EndsWith(path, PtExt))
    /\ out' = Append(out, Line("not_valid", path))
    /\ pc' = "done"
    /\ UNCHANGED <<model, model_type, verbose, ret, entry, path, fs, todo,
                   status, save_calls, raised>>

\* lines 45-46: a directory entry that does not end in .pt is passed over
LoopSkip ==
    /\ pc = "loop"
    /\ todo # <<>>
    /\ ~EndsWith(Head(todo), PtExt)
    /\ todo' = Tail(todo)
    /\ UNCHANGED <<model, model_type, verbose, ret, entry, path, fs, pc,
                   status, out, save_calls, raised>>

\* lines 45-47: a directory entry that ends in .pt is converted
LoopProcess ==
    /\ pc = "loop"
    /\ todo # <<>>
    /\ EndsWith(Head(todo), PtExt)
    /\ RunProcessFile(Join(path, Head(todo)), "loop")
    /\ todo' = Tail(todo)
    /\ UNCHANGED <<model, model_type, verbose, ret, entry, path>>

\* line 45: the listing is exhausted
LoopEnd ==
    /\ pc = "loop"
    /\ todo = <<>>
    /\ pc' = "done"
    /\ UNCHANGED <<model, model_type, verbose, ret, entry, path, fs, todo,
                   status, out, save_calls, raised>>

Next ==
    \/ ParseArgsError
    \/ PathNotFound
    \/ EnterDirectory
    \/ SingleFile
    \/ InvalidPath
    \/ LoopSkip
    \/ LoopProcess
    \/ LoopEnd

Spec == Init /\ [][Next]_vars

----------------------------------------------------------------------------
(* The extraction functions on their own: any checkpoint, either variant, *)
(* verbose or not.                                                         *)

TypeOKIdle ==
    /\ entry = "none" /\ path = NoPath /\ pc = "idle" /\ todo = <<>>
    /\ fs = [p \in {} |-> None] /\ status = [p \in {} |-> ""]
    /\ out = <<>> /\ save_calls = <<>> /\ raised = NoExc

InitExtract ==
    /\ model \in Checkpoints
    /\ model_type \in Variants
    /\ verbose \in BOOLEAN
    /\ ret = NotCalled
    /\ TypeOKIdle

CallEmbedding ==
    /\ ret = NotCalled
    /\ model_type = "embedding"
    /\ ret' = process_embedding_file(model, verbose)
    /\ UNCHANGED <<model, model_type, verbose, entry, path, fs, pc, todo,
                   status, out, save_calls, raised>>

CallVae ==
    /\ ret = NotCalled
    /\ model_type = "vae"
    /\ ret' = process_vae_file(model, verbose)
    /\ UNCHANGED <<model, model_type, verbose, entry, path, fs, pc, todo,
                   status, out, save_calls, raised>>

NextExtract == CallEmbedding \/ CallVae

SpecExtract == InitExtract /\ [][NextExtract]_vars

----------------------------------------------------------------------------
(* Properties of the extraction functions, under SpecExtract *)

Called == ret # NotCalled

\* the root has no string_to_param, or string_to_param is a dict without "*"
LacksStar(m) ==
    \/ ~HasKey(m, "string_to_param")
    \/ IsMap(m.string_to_param) /\ "*" \notin DOMAIN m.string_to_param.items

\* string_to_param is a dict holding a tensor under "*"
HasStarTensor(m) ==
    /\ HasKey(m, "string_to_param")
    /\ IsMap(m.string_to_param)
    /\ "*" \in DOMAIN m.string_to_param.items
    /\ IsTensor(m.string_to_param.items["*"])

\* the exceptions read as a missing-field failure: a failed key lookup, or
\* the attribute error from using the missing value
MissingFieldErrors == {"KeyError", "AttributeError"}

\* C2: for the embedding variant, a root without string_to_param, or a
\* string_to_param without "*", makes process_embedding_file fail with a
\* missing-field error, verbose or not; no tensor mapping is returned.
C2_EmbeddingMissingFieldFails ==
    (Called /\ model_type = "embedding" /\ LacksStar(model))
        => (~ret.ok /\ ret.exc.type \in MissingFieldErrors)

\* C3: for the vae variant, process_vae_file fails with a missing-field
\* error when state_dict is missing or is not a mapping, and returns a
\* tensor set only when state_dict is a mapping.
C3_VaeRequiresMapping ==
    (Called /\ model_type = "vae")
        => IF HasKey(model, "state_dict") /\ IsMap(model.state_dict)
             THEN ret.ok
             ELSE ~ret.ok /\ ret.exc.type \in MissingFieldErrors

\* the step count the first-present-wins rule selects: step when the key is
\* there, else global_step when that key is there, else none
FirstPresentStep(m) ==
    IF m.step # Absent THEN m.step
    ELSE IF m.global_step # Absent THEN m.global_step
    ELSE None

\* C4: for the vae variant and every combination of step and global_step
\* (absent, null, integer), the step report printed by process_vae_file is
\* the value of step if that key is present, else the value of global_step
\* if that key is present, else "not found"; a null value counts as no step
\* count. The report is the first line printed, and lines are printed only
\* by a verbose call that found state_dict.
C4_VaeStepFirstPresentWins ==
    (Called /\ model_type = "vae")
        => IF verbose /\ ret.ok
             THEN ret.printed[1] =
                    (IF FirstPresentStep(model).tag = "int"
                       THEN Line("trained_for", FirstPresentStep(model))
                       ELSE Line("step_not_found", None))
             ELSE ret.printed = <<>>

\* step is present with null and global_step holds an integer: step wins,
\* and no step count is reported
C4_Witness ==
    /\ Called /\ model_type = "vae" /\ verbose /\ ret.ok
    /\ model.step = None
    /\ model.global_step = PyInt(MaxStep)
    /\ ret.printed[1] = Line("step_not_found", None)

\* C5: for the embedding variant, when string_to_param holds a tensor under
\* "*", process_embedding_file returns a mapping with exactly one entry,
\* emb_params, whose value is that tensor, whatever else the root holds.
C5_EmbeddingSingleEntry ==
    (Called /\ model_type = "embedding" /\ HasStarTensor(model))
        => /\ ret.ok
           /\ IsMap(ret.value)
           /\ DOMAIN ret.value.items = {"emb_params"}
           /\ ret.value.items["emb_params"] = model.string_to_param.items["*"]

C5_Witness ==
    /\ Called /\ model_type = "embedding" /\ verbose
    /\ HasStarTensor(model)
    /\ model.string_to_param.items["*"] = T2
    /\ "a" \in DOMAIN model.string_to_param.items
    /\ model.step = PyInt(1)
    /\ model.sd_checkpoint_name = Str("sd15")
    /\ HasKey(model, "state_dict")
    /\ ret.ok
    /\ ret.value.items["emb_params"] = T2

\* the same call with the verbose flag flipped
OtherVerbosity ==
    IF model_type = "embedding" THEN process_embedding_file(model, ~verbose)
                                ELSE process_vae_file(model, ~verbose)

\* C10: verbose changes console output only: on every checkpoint and for
\* both variants the extraction function returns the same mapping, or fails
\* in both runs, with verbose true as with verbose false.
C10_VerboseOnlyAffectsOutput ==
    Called => /\ ret.ok = OtherVerbosity.ok
              /\ ret.value = OtherVerbosity.value

----------------------------------------------------------------------------
(* Properties of the batch run, under Spec *)

Finished == pc \in {"done", "escaped"}

\* C1: in a directory run, a failing file does not end the loop: when the
\* run is over every .pt entry of the listing has been processed.
C1_FailureDoesNotEndBatch ==
    (Finished /\ IsDir(fs, path))
        => \A n \in Range(fs[path].list) :
              EndsWith(n, PtExt) => Join(path, n) \in DOMAIN status

\* C6: an empty state_dict is an error of the conversion: save_file is
\* never called with a mapping of zero tensors.
C6_NoEmptyArchiveSaved ==
    \A i \in DOMAIN save_calls :
        ~(IsMap(save_calls[i].tensors) /\ DOMAIN save_calls[i].tensors.items = {})

PreWriteFailures == {"load_failed", "unsupported", "extract_failed"}

\* C7: a process_file call that fails before the write step (load,
\* unsupported variant, extraction) calls save_file not at all and leaves
\* every file as it was.
C7_NoOutputOnEarlyFailure ==
    [][\A f \in DOMAIN status' \ DOMAIN status :
          status'[f] \in PreWriteFailures
             => (fs' = fs /\ save_calls' = save_calls)]_vars

\* extraction failed on d/a.pt while d/a.safetensors was there: it still
\* holds its old content
C7_Witness ==
    /\ Join(DirPath, A_pt) \in DOMAIN status
    /\ status[Join(DirPath, A_pt)] = "extract_failed"
    /\ IsFile(fs, Join(DirPath, A_safetensors))
    /\ fs[Join(DirPath, A_safetensors)].data = OldData
    /\ save_calls = <<>>

\* C8: every failure ends with a printed diagnostic that names the path of
\* the file that failed and the kind of error.
C8_FailureNamesPathAndKind ==
    Finished =>
      /\ \A f \in DOMAIN status :
            status[f] # "saved"
              => \E i \in DOMAIN out :
                    /\ out[i].kind = "error"
                    /\ out[i].shows.path = f
      /\ ~Exists(fs, path)
            => \E i \in DOMAIN out :
                  /\ out[i].kind = "error"
                  /\ out[i].shows.path = path

\* C9: a converted input path p ++ ".pt" is saved at p ++ ".safetensors",
\* and the save does not look at what is there: the file at that path holds
\* the tensors of this run, and a save fails only on what it was given.
C9_OutputPathAndOverwrite ==
    \A f \in DOMAIN status :
      status[f] \in {"saved", "save_failed"} =>
        \E n \in 0..Len(f) :
          LET p == SubSeq(f, 1, n)
              o == p \o SafetensorsExt
          IN  /\ f = p \o PtExt
              /\ \E i \in DOMAIN save_calls :
                    /\ save_calls[i].path = o
                    /\ save_calls[i].wrote = (status[f] = "saved")
                    /\ save_calls[i].wrote = ValidTensors(save_calls[i].tensors)
                    /\ save_calls[i].wrote
                         => IsFile(fs, o) /\ fs[o].data = save_calls[i].tensors

\* d/a.pt was converted while d/a.safetensors was there: the old file is
\* replaced by the new archive
C9_Witness ==
    /\ IsDir(fs, path)
    /\ A_safetensors \in Range(fs[path].list)
    /\ Join(path, A_pt) \in DOMAIN status
    /\ status[Join(path, A_pt)] = "saved"
    /\ fs[Join(path, A_safetensors)].data # OldData
====
